---- MODULE Spec2Model ----
(***************************************************************************)
(* Stepping Stones (src/app.py, src/models.py): the streak engine           *)
(* (update_streak_status), the deadline calculator (calculate_deadline),    *)
(* the birthday scheduler (get_next_birthday) and the request handlers      *)
(* that drive them.  Dates are proleptic Gregorian ordinals, as             *)
(* datetime.date.toordinal() numbers them (0001-01-01 is day 1).            *)
(***************************************************************************)
EXTENDS Integers, Sequences, FiniteSets, TLC

(***************************************************************************)
(* Bounds of the model.                                                     *)
(***************************************************************************)
MaxDays == 5        \* the clock advances at most this many days past StartDay
MaxTarget == 2      \* adjust_target('increase') is capped here
NumSteps == 1       \* goals (Step rows) a user may hold at once
RaceDays == 1       \* midnights that pass while requests overlap

(***************************************************************************)
(* Program constants.                                                       *)
(***************************************************************************)
DefaultTarget == 2       \* User.daily_target default
DefaultFreezes == 3      \* User.streak_freezes default
Null == 0                \* last_streak_date IS NULL (no valid date has ordinal 0)
RollingWeekly == 7
RollingMonthly == 30
RollingYearly == 365
FallbackDays == 7

None == "<None>"         \* a form field that was not submitted (Python None)

(***************************************************************************)
(* datetime.date arithmetic.                                                *)
(***************************************************************************)
Years == 2023..2026

IsLeap(y) == (y % 4 = 0) /\ ((y % 100 # 0) \/ (y % 400 = 0))

\* calendar.monthrange(y, m)[1]
DaysInMonth(y, m) ==
    IF m = 2 THEN (IF IsLeap(y) THEN 29 ELSE 28)
    ELSE IF m \in {4, 6, 9, 11} THEN 30 ELSE 31

DaysBeforeYear(y) ==
    (y - 1) * 365 + ((y - 1) \div 4) - ((y - 1) \div 100) + ((y - 1) \div 400)

RECURSIVE DaysBeforeMonth(_, _)
DaysBeforeMonth(y, m) ==
    IF m = 1 THEN 0 ELSE DaysBeforeMonth(y, m - 1) + DaysInMonth(y, m - 1)

\* date(y, m, d) raises ValueError unless this holds
ValidDate(y, m, d) == m \in 1..12 /\ d >= 1 /\ d <= DaysInMonth(y, m)

\* date(y, m, d), as its ordinal
MkDate(y, m, d) == DaysBeforeYear(y) + DaysBeforeMonth(y, m) + d

YearOf(n) == CHOOSE y \in Years : DaysBeforeYear(y) < n /\ n <= DaysBeforeYear(y + 1)

MonthOf(n) ==
    LET y == YearOf(n)
        k == n - DaysBeforeYear(y)
    IN  CHOOSE m \in 1..12 :
            DaysBeforeMonth(y, m) < k /\ k <= DaysBeforeMonth(y, m) + DaysInMonth(y, m)

DayOf(n) == n - DaysBeforeYear(YearOf(n)) - DaysBeforeMonth(YearOf(n), MonthOf(n))

\* date.weekday(): Monday = 0 .. Sunday = 6
Weekday(n) == (n + 6) % 7

(***************************************************************************)
(* calculate_deadline(timeframe, mode), with date.today() passed as t.      *)
(***************************************************************************)
Falsy(x) == x = None \/ x = ""

CustomFallback(t) == t + FallbackDays

RollingDeadline(timeframe, t) ==
    IF timeframe = "Weekly" THEN t + RollingWeekly
    ELSE IF timeframe = "Monthly" THEN t + RollingMonthly
    ELSE t + RollingYearly

\* faulty variant: the week ends on Monday
CalendarWeeklyMonday(t) == t + ((7 - Weekday(t) + 7) % 7)
CalendarWeekly(t) == t + ((6 - Weekday(t) + 7) % 7)

CalendarMonthly(t) == MkDate(YearOf(t), MonthOf(t), DaysInMonth(YearOf(t), MonthOf(t)))

CalendarYearly(t) == MkDate(YearOf(t), 12, 31)

\* faulty variant: the fallback is a month
UltimateFallbackMonth(t) == t + RollingMonthly
UltimateFallback(t) == t + FallbackDays

Timeframes == {"Weekly", "Monthly", "Yearly"}

calculate_deadline(timeframe, mode, t) ==
    IF Falsy(mode) \/ mode = "custom" THEN CustomFallback(t)
    ELSE IF mode = "rolling" /\ timeframe \in Timeframes THEN RollingDeadline(timeframe, t)
    ELSE IF mode = "calendar" /\ timeframe = "Weekly" THEN CalendarWeekly(t)
    ELSE IF mode = "calendar" /\ timeframe = "Monthly" THEN CalendarMonthly(t)
    ELSE IF mode = "calendar" /\ timeframe = "Yearly" THEN CalendarYearly(t)
    ELSE UltimateFallback(t)

(***************************************************************************)
(* update_streak_status(user), with date.today() passed as t, the user's    *)
(* CustomRestDay dates as crd and the result of the StepLog count query as  *)
(* todays_count.  u is the User row's streak fields.                        *)
(***************************************************************************)
\* lines 110-112: rest_days is the comma-joined list of weekday numbers
\* faulty variant: weekdays numbered from Sunday
IsWeeklyRestSundayFirst(u, d) == u.rest_days # {} /\ ((Weekday(d) + 1) % 7) \in u.rest_days
IsWeeklyRest(u, d) == u.rest_days # {} /\ Weekday(d) \in u.rest_days

\* line 115
IsCustomRest(crd, d) == d \in crd

\* line 106
\* faulty variants: a gap of one day is charged; so is a same-day call
MissedADayInclusive(delta) == delta >= 1
MissedADaySameDay(delta) == delta >= 0
MissedADay(delta) == delta > 1

\* line 120
\* faulty variant: a freeze is spent when none is left
HasFreezeInclusive(u) == u.streak_freezes >= 0
HasFreeze(u) == u.streak_freezes > 0

\* lines 121-124
\* faulty variants: the date is not backdated; the freeze credits today;
\* one freeze per missed day
FreezeCreditsToday(u, t) == [u EXCEPT !.streak_freezes = @ - 1, !.last_streak_date = t]
FreezeNoBackdate(u, t) == [u EXCEPT !.streak_freezes = @ - 1]
FreezePerMissedDay(u, t) ==
    LET missed == t - u.last_streak_date - 1
        k == IF missed < u.streak_freezes THEN missed ELSE u.streak_freezes
    IN  [u EXCEPT !.streak_freezes = @ - k, !.last_streak_date = t - 1]
UseFreeze(u, t) == [u EXCEPT !.streak_freezes = @ - 1, !.last_streak_date = t - 1]

\* lines 125-128
ResetStreak(u) == [u EXCEPT !.current_streak = 0]

\* lines 102-128
StreakPenalty(u, t, crd) ==
    IF u.last_streak_date = Null THEN u
    ELSE IF ~MissedADay(t - u.last_streak_date) THEN u
    ELSE IF IsWeeklyRest(u, t - 1) \/ IsCustomRest(crd, t - 1) THEN u
    ELSE IF HasFreeze(u) THEN UseFreeze(u, t)
    ELSE ResetStreak(u)

\* lines 133-135
\* faulty variant: no same-day guard
ShouldCreditUnguarded(u, t, todays_count) == todays_count >= u.daily_target
ShouldCredit(u, t, todays_count) ==
    todays_count >= u.daily_target /\ u.last_streak_date # t

\* lines 136-137
\* faulty variant: the date is not set
CreditKeepsDate(u, t) == [u EXCEPT !.current_streak = @ + 1]
Credit(u, t) == [u EXCEPT !.current_streak = @ + 1, !.last_streak_date = t]

update_streak_status(u, t, crd, todays_count) ==
    LET p == StreakPenalty(u, t, crd)
    IN  IF ShouldCredit(p, t, todays_count) THEN Credit(p, t) ELSE p

(***************************************************************************)
(* get_next_birthday(dob), with date.today() passed as t and dob given as   *)
(* its month and day.                                                       *)
(***************************************************************************)
BirthdayIn(y, m, d) == IF ValidDate(y, m, d) THEN MkDate(y, m, d) ELSE MkDate(y, 2, 28)

\* faulty variant: a birthday that falls today is put off to next year
get_next_birthday_after_today(m, d, t) ==
    LET this_year_bday == BirthdayIn(YearOf(t), m, d)
    IN  IF this_year_bday > t THEN this_year_bday ELSE BirthdayIn(YearOf(t) + 1, m, d)
get_next_birthday(m, d, t) ==
    LET this_year_bday == BirthdayIn(YearOf(t), m, d)
    IN  IF this_year_bday >= t THEN this_year_bday ELSE BirthdayIn(YearOf(t) + 1, m, d)

(***************************************************************************)
(* State: the rows of one user's account and the clock.                     *)
(***************************************************************************)
VARIABLES
    today,             \* date.today()
    user,              \* the User row: streak fields and rest_days
    custom_rest_days,  \* dates of the user's CustomRestDay rows
    steps,             \* the user's Step rows, by id
    subtask,           \* the user's SubTask row
    todays_logs,       \* step ids of the user's StepLog rows dated today
    req,               \* requests in flight: the User object each one loaded
    op,                \* history: the last handler, if it called the streak engine or
                       \* wrote a Step row, with its form inputs; NoCall otherwise
    pre,               \* history: the User row and the Step row that handler found
    credits            \* history: calls since midnight that ran line 136

vars == <<today, user, custom_rest_days, steps, subtask, todays_logs, req, op, pre, credits>>

StartDay == MkDate(2024, 2, 29)
LastDay == StartDay + MaxDays
StepIds == 1..NumSteps
ReqIds == {1, 2}

NoStep == [exists |-> FALSE, timeframe |-> "", deadline_mode |-> "",
           deadline_date |-> Null, is_active |-> FALSE]
NoSubtask == [exists |-> FALSE, step |-> 0, is_completed |-> FALSE]

\* User(...) in register(): the column defaults of models.py
NewUser == [daily_target |-> DefaultTarget, current_streak |-> 0,
            last_streak_date |-> Null, streak_freezes |-> DefaultFreezes,
            rest_days |-> {}]

Idle == [pc |-> "idle", day |-> Null, u |-> NewUser, orig |-> NewUser]

\* inputs
NoDob == <<0, 0>>

NoCall == [name |-> "", step |-> 0, timeframe |-> "", mode |-> "", dob |-> NoDob]
Op(name) == [NoCall EXCEPT !.name = name]
StepOp(name, i, timeframe, mode) ==
    [NoCall EXCEPT !.name = name, !.step = i, !.timeframe = timeframe, !.mode = mode]
RegisterOp(dob) == [NoCall EXCEPT !.name = "register", !.dob = dob]

DobChoices == {NoDob, <<3, 1>>}
RestDayChoices == {{}, {5, 6}}
CustomDateChoices == {StartDay + 1, StartDay + 4}
TargetActions == {"increase", "decrease", "reset"}
StreakTimings == {<<"Yearly", "calendar">>}

\* register(): lines 628-672
Registered(dob) ==
    /\ user = NewUser
    /\ custom_rest_days =
         IF dob = NoDob THEN {} ELSE {get_next_birthday(dob[1], dob[2], today)}
    /\ steps = [i \in StepIds |-> NoStep]
    /\ subtask = NoSubtask
    /\ todays_logs = {}
    /\ req = [r \in ReqIds |-> Idle]
    /\ op = RegisterOp(dob)
    /\ pre = [user |-> NewUser, step |-> NoStep]
    /\ credits = 0

Init ==
    /\ today = StartDay
    /\ \E dob \in DobChoices : Registered(dob)

\* line 131: one row per step_id among the user's logs dated today
TodaysCount(logs) == Cardinality(logs)

\* the call update_streak_status(current_user) and what it leaves behind
Evaluate(logs) ==
    LET p == StreakPenalty(user, today, custom_rest_days)
    IN  /\ user' = update_streak_status(user, today, custom_rest_days, TodaysCount(logs))
        /\ credits' = credits + (IF user'.current_streak > p.current_streak THEN 1 ELSE 0)
        /\ pre' = [user |-> user, step |-> NoStep]

NoEvaluate ==
    /\ pre' = [user |-> user', step |-> NoStep]
    /\ UNCHANGED credits

\* dashboard(): lines 146-175
Dashboard ==
    /\ Evaluate(todays_logs)
    /\ op' = Op("dashboard")
    /\ UNCHANGED <<today, custom_rest_days, steps, subtask, todays_logs, req>>

\* set_rest_days(): lines 181-192
SetRestDays(days) ==
    /\ user' = [user EXCEPT !.rest_days = days]
    /\ op' = NoCall
    /\ UNCHANGED <<today, custom_rest_days, steps, subtask, todays_logs, req>>
    /\ NoEvaluate

\* add_custom_date(): lines 194-217
AddCustomDate(d, has_reason) ==
    /\ custom_rest_days' =
         IF has_reason /\ d \notin custom_rest_days
         THEN custom_rest_days \cup {d} ELSE custom_rest_days
    /\ op' = NoCall
    /\ UNCHANGED <<today, user, steps, subtask, todays_logs, req>>
    /\ NoEvaluate

\* step_view() POST with log_content: lines 344-360
LogProgress(i) ==
    /\ steps[i].exists
    /\ todays_logs' = todays_logs \cup {i}
    /\ op' = NoCall
    /\ UNCHANGED <<today, user, custom_rest_days, steps, subtask, req>>
    /\ NoEvaluate

\* adjust_target(action): lines 517-525
\* faulty variant: 'decrease' has no floor
AdjustTargetNoFloor(action) ==
    /\ action = "increase" => user.daily_target < MaxTarget
    /\ user' =
         IF action = "increase" THEN [user EXCEPT !.daily_target = @ + 1]
         ELSE IF action = "decrease" THEN [user EXCEPT !.daily_target = @ - 1]
         ELSE user
    /\ op' = NoCall
    /\ UNCHANGED <<today, custom_rest_days, steps, subtask, todays_logs, req>>
    /\ NoEvaluate
AdjustTarget(action) ==
    /\ action = "increase" => user.daily_target < MaxTarget
    /\ user' =
         IF action = "increase" THEN [user EXCEPT !.daily_target = @ + 1]
         ELSE IF action = "decrease" /\ user.daily_target > 1
              THEN [user EXCEPT !.daily_target = @ - 1]
         ELSE user
    /\ op' = NoCall
    /\ UNCHANGED <<today, custom_rest_days, steps, subtask, todays_logs, req>>
    /\ NoEvaluate

\* midnight: date.today() moves on and no StepLog row is dated today yet
Tick ==
    /\ today < LastDay
    /\ today' = today + 1
    /\ todays_logs' = {}
    /\ credits' = 0
    /\ op' = NoCall
    /\ UNCHANGED <<user, custom_rest_days, steps, subtask, req>>
    /\ pre' = [user |-> user', step |-> NoStep]

(***************************************************************************)
(* Goals and subtasks.                                                      *)
(***************************************************************************)
\* models.py:45-46: a column left None at INSERT takes its default
ColumnDefault(x, default) == IF x = None THEN default ELSE x

FreeIds(ids) == {i \in ids : ~steps[i].exists}
LowestFree(ids) == CHOOSE i \in FreeIds(ids) : \A j \in FreeIds(ids) : i <= j

\* create_step(): lines 301-328
CreateStep(ids, has_title, timeframe, mode) ==
    /\ FreeIds(ids) # {}
    /\ LET i == LowestFree(ids)
       IN  /\ steps' =
                IF has_title
                THEN [steps EXCEPT ![i] =
                        [exists |-> TRUE,
                         timeframe |-> ColumnDefault(timeframe, "Weekly"),
                         deadline_mode |-> ColumnDefault(mode, "rolling"),
                         deadline_date |-> calculate_deadline(timeframe, mode, today),
                         is_active |-> TRUE]]
                ELSE steps
           /\ op' = StepOp("create_step", IF has_title THEN i ELSE 0, timeframe, mode)
    /\ pre' = [user |-> user, step |-> NoStep]
    /\ UNCHANGED <<today, user, custom_rest_days, subtask, todays_logs, req, credits>>

\* edit_step(): lines 365-390
\* faulty variant: the deadline is recalculated on every edit
EditStepAlwaysRecalculates(i, timeframe, mode) ==
    /\ steps[i].exists
    /\ steps' = [steps EXCEPT ![i].timeframe = timeframe,
                              ![i].deadline_mode = mode,
                              ![i].deadline_date = calculate_deadline(timeframe, mode, today)]
    /\ op' = StepOp("edit_step", i, timeframe, mode)
    /\ pre' = [user |-> user, step |-> steps[i]]
    /\ UNCHANGED <<today, user, custom_rest_days, subtask, todays_logs, req, credits>>
EditStep(i, timeframe, mode) ==
    /\ steps[i].exists
    /\ steps' =
         IF timeframe # steps[i].timeframe \/ mode # steps[i].deadline_mode
         THEN [steps EXCEPT ![i].timeframe = timeframe,
                            ![i].deadline_mode = mode,
                            ![i].deadline_date = calculate_deadline(timeframe, mode, today)]
         ELSE steps
    /\ op' = StepOp("edit_step", i, timeframe, mode)
    /\ pre' = [user |-> user, step |-> steps[i]]
    /\ UNCHANGED <<today, user, custom_rest_days, subtask, todays_logs, req, credits>>

\* delete_step(): lines 392-400; logs and subtasks go with the step (models.py:52-53)
DeleteStep(i) ==
    /\ steps[i].exists
    /\ steps' = [steps EXCEPT ![i] = NoStep]
    /\ todays_logs' = todays_logs \ {i}
    /\ subtask' = IF subtask.exists /\ subtask.step = i THEN NoSubtask ELSE subtask
    /\ op' = StepOp("delete_step", i, "", "")
    /\ pre' = [user |-> user, step |-> steps[i]]
    /\ UNCHANGED <<today, user, custom_rest_days, req, credits>>

\* archive_step(): lines 402-410
ArchiveStep(i) ==
    /\ steps[i].exists
    /\ steps' = [steps EXCEPT ![i].is_active = FALSE]
    /\ op' = StepOp("archive_step", i, "", "")
    /\ pre' = [user |-> user, step |-> steps[i]]
    /\ UNCHANGED <<today, user, custom_rest_days, subtask, todays_logs, req, credits>>

\* add_subtask(): lines 416-429
AddSubtask(i, has_text) ==
    /\ steps[i].exists
    /\ ~subtask.exists
    /\ subtask' = IF has_text THEN [exists |-> TRUE, step |-> i, is_completed |-> FALSE]
                  ELSE subtask
    /\ op' = NoCall
    /\ UNCHANGED <<today, user, custom_rest_days, steps, todays_logs, req>>
    /\ NoEvaluate

\* toggle_subtask(): lines 431-456
ToggleSubtask ==
    /\ subtask.exists
    /\ subtask' = [subtask EXCEPT !.is_completed = ~subtask.is_completed]
    /\ IF subtask'.is_completed
       THEN /\ todays_logs' = todays_logs \cup {subtask.step}
            /\ Evaluate(todays_logs')
       ELSE /\ UNCHANGED <<todays_logs, user>>
            /\ NoEvaluate
    /\ op' = StepOp("toggle_subtask", subtask.step, "", "")
    /\ UNCHANGED <<today, custom_rest_days, steps, req>>

(***************************************************************************)
(* The account of one user, one request at a time.                          *)
(***************************************************************************)
Next ==
    \/ Dashboard
    \/ \E days \in RestDayChoices : SetRestDays(days)
    \/ \E d \in CustomDateChoices, has_reason \in BOOLEAN : AddCustomDate(d, has_reason)
    \/ \E i \in StepIds : LogProgress(i)
    \/ \E action \in TargetActions : AdjustTarget(action)
    \/ \E tm \in StreakTimings, has_title \in BOOLEAN :
          CreateStep(StepIds, has_title, tm[1], tm[2])
    \/ \E i \in StepIds : DeleteStep(i)
    \/ \E i \in StepIds, has_text \in BOOLEAN : AddSubtask(i, has_text)
    \/ ToggleSubtask
    \/ Tick

Spec == Init /\ [][Next]_vars

(***************************************************************************)
(* The goals of one user on one day: every form input create_step and       *)
(* edit_step may receive, on each day of a week that holds a leap day, a    *)
(* month end and a Sunday.                                                  *)
(***************************************************************************)
GoalDays == MkDate(2024, 2, 26)..MkDate(2024, 3, 3)
GoalIds == {1}      \* the goal whose deadline is followed
TimeframeInputs == {"Weekly", "Monthly", "Yearly", "Daily", None}
ModeInputs == {"rolling", "calendar", "custom", "bogus", "", None}

InitGoals ==
    /\ today \in GoalDays
    /\ Registered(NoDob)

NextGoals ==
    \/ \E has_title \in BOOLEAN, timeframe \in TimeframeInputs, mode \in ModeInputs :
          CreateStep(GoalIds, has_title, timeframe, mode)
    \/ \E i \in GoalIds, timeframe \in TimeframeInputs, mode \in ModeInputs :
          EditStep(i, timeframe, mode)
    \/ \E i \in GoalIds : ArchiveStep(i)
    \/ \E i \in GoalIds : DeleteStep(i)

SpecGoals == InitGoals /\ [][NextGoals]_vars

(***************************************************************************)
(* Two dashboard requests of the same user that may be in flight at once,   *)
(* among requests that run alone.  Each of the two works on the User object *)
(* its own session loaded (load_user, line 22), runs update_streak_status   *)
(* on that object and writes the columns it changed when it commits         *)
(* (line 139).  Nothing serializes them.                                    *)
(***************************************************************************)
\* db.session.commit(): UPDATE user SET <the columns this session changed>
\* variant: the increment is applied to the stored value
CommitIncrementInSql(row, u, orig) ==
    [f \in DOMAIN row |->
        IF f = "current_streak" THEN row[f] + (u[f] - orig[f])
        ELSE IF u[f] # orig[f] THEN u[f] ELSE row[f]]
Commit(row, u, orig) ==
    [f \in DOMAIN row |-> IF u[f] # orig[f] THEN u[f] ELSE row[f]]

\* login_required: current_user is loaded from the row
ReqLoad(r) ==
    /\ req[r].pc = "idle"
    /\ req' = [req EXCEPT ![r] = [pc |-> "loaded", day |-> Null, u |-> user, orig |-> user]]
    /\ UNCHANGED <<today, user, custom_rest_days, steps, subtask, todays_logs, op, pre, credits>>

\* lines 99-137, on the loaded object
ReqEvaluate(r) ==
    /\ req[r].pc = "loaded"
    /\ req' = [req EXCEPT
                 ![r].pc = "evaluated",
                 ![r].day = today,
                 ![r].u = update_streak_status(req[r].u, today, custom_rest_days,
                                               TodaysCount(todays_logs))]
    /\ UNCHANGED <<today, user, custom_rest_days, steps, subtask, todays_logs, op, pre, credits>>

\* line 139
ReqCommit(r) ==
    /\ req[r].pc = "evaluated"
    /\ user' = Commit(user, req[r].u, req[r].orig)
    /\ req' = [req EXCEPT ![r].pc = "done"]
    /\ UNCHANGED <<today, custom_rest_days, steps, subtask, todays_logs, op, pre, credits>>

\* midnight, while requests may be in flight
RaceTick ==
    /\ today < StartDay + RaceDays
    /\ Tick

NextRace ==
    \/ \E r \in ReqIds : ReqLoad(r)
    \/ \E r \in ReqIds : ReqEvaluate(r)
    \/ \E r \in ReqIds : ReqCommit(r)
    \/ \E i \in StepIds : LogProgress(i)
    \/ \E action \in TargetActions : AdjustTarget(action)
    \/ \E tm \in StreakTimings, has_title \in BOOLEAN :
          CreateStep(StepIds, has_title, tm[1], tm[2])
    \/ RaceTick

SpecRace == Init /\ [][NextRace]_vars

(***************************************************************************)
(* Registration: the form is open (GET /register, line 674) and is posted   *)
(* with or without a date of birth, on days around the end of February and  *)
(* the turn of the year, in leap and common years.  Until the form is       *)
(* posted the account's rows stand at their defaults and are not read.      *)
(***************************************************************************)
BirthdayYears == {2023, 2024, 2025}
BirthdayDays ==
    UNION {{MkDate(y, 1, 1), MkDate(y, 2, 27), MkDate(y, 2, 28), MkDate(y, 3, 1),
            MkDate(y, 3, 2), MkDate(y, 6, 15), MkDate(y, 12, 31)} : y \in BirthdayYears}
        \cup {MkDate(2024, 2, 29)}
BirthdayDobs == {NoDob, <<2, 29>>, <<2, 28>>, <<3, 1>>, <<1, 1>>, <<12, 31>>, <<6, 15>>}

InitBirthday ==
    /\ today \in BirthdayDays
    /\ user = NewUser
    /\ custom_rest_days = {}
    /\ steps = [i \in StepIds |-> NoStep]
    /\ subtask = NoSubtask
    /\ todays_logs = {}
    /\ req = [r \in ReqIds |-> Idle]
    /\ op = Op("register_form")
    /\ pre = [user |-> NewUser, step |-> NoStep]
    /\ credits = 0

\* register() POST: lines 630-672
Register(dob) ==
    /\ op.name = "register_form"
    /\ user' = NewUser
    /\ custom_rest_days' =
         IF dob = NoDob THEN {} ELSE {get_next_birthday(dob[1], dob[2], today)}
    /\ op' = RegisterOp(dob)
    /\ UNCHANGED <<today, steps, subtask, todays_logs, req, pre, credits>>

NextBirthday == \E dob \in BirthdayDobs : Register(dob)

SpecBirthday == InitBirthday /\ [][NextBirthday]_vars

(***************************************************************************)
(* One goal over the days: it is created, edited, logged against, archived  *)
(* and deleted while the dashboard is loaded and midnights pass.            *)
(***************************************************************************)
FrameTimings ==
    {<<"Weekly", "rolling">>, <<"Weekly", "calendar">>, <<"Monthly", "calendar">>,
     <<None, None>>}

NextFrame ==
    \/ \E has_title \in BOOLEAN, tm \in FrameTimings :
          CreateStep(GoalIds, has_title, tm[1], tm[2])
    \/ \E i \in GoalIds, tm \in FrameTimings : EditStep(i, tm[1], tm[2])
    \/ \E i \in GoalIds : ArchiveStep(i)
    \/ \E i \in GoalIds : DeleteStep(i)
    \/ \E i \in GoalIds : LogProgress(i)
    \/ \E i \in GoalIds, has_text \in BOOLEAN : AddSubtask(i, has_text)
    \/ ToggleSubtask
    \/ Dashboard
    \/ Tick

SpecFrame == Init /\ [][NextFrame]_vars

(***************************************************************************)
(* Vocabulary of the properties.  They read the rows before and after the   *)
(* last call of update_streak_status: pre.user and user.                    *)
(***************************************************************************)
EvalRan ==
    \/ op.name = "dashboard"
    \/ op.name = "toggle_subtask" /\ subtask.exists /\ subtask.is_completed

HadHistory == pre.user.last_streak_date # Null
Gap == today - pre.user.last_streak_date
Count == TodaysCount(todays_logs)
TargetMet == Count >= user.daily_target

\* RestDayPolicy.isRestDay(user, d)
RestDay(d) == Weekday(d) \in user.rest_days \/ d \in custom_rest_days

\* the days strictly between the last credited day and today that were no rest days
MissedDays == {d \in (pre.user.last_streak_date + 1)..(today - 1) : ~RestDay(d)}

FreezesUsed == pre.user.streak_freezes - user.streak_freezes
StreakKept == user.current_streak >= pre.user.current_streak
StreakFields(u) == <<u.current_streak, u.last_streak_date, u.streak_freezes>>

(***************************************************************************)
(* C1: a second update_streak_status on the same day, with the same         *)
(* activity count and the same rest-day settings, leaves current_streak,    *)
(* last_streak_date and streak_freezes as the first call left them.         *)
(***************************************************************************)
C1_Idempotent ==
    [][ ( /\ EvalRan
          /\ EvalRan'
          /\ op'.name \in {"dashboard", "toggle_subtask"}
          /\ today' = today
          /\ TodaysCount(todays_logs') = TodaysCount(todays_logs)
          /\ user'.rest_days = user.rest_days
          /\ custom_rest_days' = custom_rest_days )
        => StreakFields(user') = StreakFields(user) ]_vars

\* a call that found the day already credited by an earlier call and changed nothing
C1_Witness ==
    /\ EvalRan
    /\ pre.user.last_streak_date = today
    /\ pre.user.streak_freezes < DefaultFreezes
    /\ TargetMet
    /\ StreakFields(user) = StreakFields(pre.user)

(***************************************************************************)
(* C2: within one day current_streak is incremented by at most one call,    *)
(* and only by a call that finds todays_count >= daily_target and           *)
(* last_streak_date other than today.                                       *)
(***************************************************************************)
C2_OneCreditPerDay ==
    /\ credits <= 1
    /\ (EvalRan /\ user.current_streak > pre.user.current_streak)
          => (TargetMet /\ pre.user.last_streak_date # today /\ credits = 1)
    /\ (user.last_streak_date # today) => credits = 0

\* the target is met and the day is credited: a further call did not credit again
C2_Witness ==
    /\ EvalRan
    /\ TargetMet
    /\ pre.user.last_streak_date = today
    /\ credits = 1
    /\ user.current_streak = pre.user.current_streak

(***************************************************************************)
(* C3: a call that finds one freeze left, a gap of more than one day and    *)
(* yesterday no rest day consumes that freeze, does not reset the streak    *)
(* and leaves last_streak_date at today - 1; a call that finds such a gap   *)
(* and no freeze left leaves current_streak at 0.                           *)
(***************************************************************************)
PenaltyDue == EvalRan /\ HadHistory /\ Gap > 1 /\ ~RestDay(today - 1)

C3_FreezeThenReset ==
    /\ (PenaltyDue /\ pre.user.streak_freezes = 1) =>
          /\ user.streak_freezes = 0
          /\ StreakKept
          /\ user.last_streak_date = today - 1
    /\ (PenaltyDue /\ pre.user.streak_freezes = 0) =>
          user.current_streak = 0

\* C3 as the code has it: the same call goes on to credit today when the
\* target is already met, so the date ends at today and the streak one higher
C3_FreezeThenResetOrCredit ==
    /\ (PenaltyDue /\ pre.user.streak_freezes = 1) =>
          /\ user.streak_freezes = 0
          /\ IF TargetMet
             THEN /\ user.current_streak = pre.user.current_streak + 1
                  /\ user.last_streak_date = today
             ELSE /\ user.current_streak = pre.user.current_streak
                  /\ user.last_streak_date = today - 1
    /\ (PenaltyDue /\ pre.user.streak_freezes = 0) =>
          /\ user.streak_freezes = 0
          /\ IF TargetMet
             THEN /\ user.current_streak = 1
                  /\ user.last_streak_date = today
             ELSE /\ user.current_streak = 0
                  /\ user.last_streak_date = pre.user.last_streak_date

\* the freezes are used up and a streak is lost to a further missed day
C3_Witness ==
    /\ PenaltyDue
    /\ pre.user.streak_freezes = 0
    /\ pre.user.current_streak > 0
    /\ user.current_streak = 0

(***************************************************************************)
(* C4: a gap of k missed non-rest days costs k freezes, or the streak when  *)
(* fewer than k freezes remain.                                             *)
(***************************************************************************)
C4_FreezePerMissedDay ==
    (EvalRan /\ HadHistory /\ Gap > 1) =>
        IF pre.user.streak_freezes >= Cardinality(MissedDays)
        THEN FreezesUsed = Cardinality(MissedDays) /\ StreakKept
        ELSE FreezesUsed = 0 /\ user.current_streak = (IF TargetMet THEN 1 ELSE 0)

\* C4 as the code has it: one call charges a gap once, whatever its length,
\* and only when yesterday was no rest day
C4_FreezePerCall ==
    (EvalRan /\ HadHistory /\ Gap > 1) =>
        IF RestDay(today - 1) THEN FreezesUsed = 0 /\ StreakKept
        ELSE IF pre.user.streak_freezes > 0 THEN FreezesUsed = 1 /\ StreakKept
        ELSE FreezesUsed = 0 /\ user.current_streak = (IF TargetMet THEN 1 ELSE 0)

\* two non-rest days were missed and one freeze paid for both
C4_Witness ==
    /\ PenaltyDue
    /\ Cardinality(MissedDays) >= 2
    /\ pre.user.current_streak > 0
    /\ FreezesUsed = 1
    /\ StreakKept

(***************************************************************************)
(* C5: when the gap is more than one day and yesterday is a weekly rest day *)
(* or a custom rest day, the call consumes no freeze and does not reset     *)
(* the streak.                                                              *)
(***************************************************************************)
C5_RestDayShields ==
    (EvalRan /\ HadHistory /\ Gap > 1 /\ RestDay(today - 1)) =>
        FreezesUsed = 0 /\ StreakKept

\* a three-day gap with a missed working day in it, shielded by yesterday
C5_Witness ==
    /\ EvalRan /\ HadHistory
    /\ Gap >= 3
    /\ RestDay(today - 1)
    /\ MissedDays # {}
    /\ pre.user.current_streak > 0
    /\ FreezesUsed = 0 /\ StreakKept

(***************************************************************************)
(* C6: when last_streak_date is yesterday or today, the call consumes no    *)
(* freeze and does not reset the streak, whatever the rest days, freezes    *)
(* and activity count are.                                                  *)
(***************************************************************************)
C6_GapOneIsFree ==
    (EvalRan /\ HadHistory /\ Gap \in {0, 1}) =>
        FreezesUsed = 0 /\ StreakKept

\* the day after a credited day, itself no rest day, with the target not met
C6_Witness ==
    /\ EvalRan /\ HadHistory
    /\ Gap = 1
    /\ ~RestDay(today - 1)
    /\ ~TargetMet
    /\ pre.user.current_streak > 0
    /\ user.current_streak = pre.user.current_streak

(***************************************************************************)
(* C7: current_streak is 0 whenever last_streak_date is null, and a user    *)
(* with no history is never charged a freeze or reset.                      *)
(***************************************************************************)
C7_NoHistory ==
    /\ user.last_streak_date = Null =>
          user.current_streak = 0 /\ user.streak_freezes = DefaultFreezes
    /\ (EvalRan /\ ~HadHistory) => FreezesUsed = 0 /\ StreakKept

\* days after registration a call still finds no history
C7_Witness ==
    /\ EvalRan
    /\ ~HadHistory
    /\ user.last_streak_date = Null
    /\ today >= StartDay + 2

(***************************************************************************)
(* Vocabulary of the deadline properties: the last create_step or edit_step *)
(* that called calculate_deadline, with the inputs it passed.               *)
(***************************************************************************)
Recalculated ==
    \/ op.name = "create_step" /\ op.step # 0
    \/ /\ op.name = "edit_step"
       /\ (op.timeframe # pre.step.timeframe \/ op.mode # pre.step.deadline_mode)

Recognized(timeframe, mode) ==
    /\ timeframe \in {"Weekly", "Monthly", "Yearly"}
    /\ mode \in {"rolling", "calendar"}

Deadline == steps[op.step].deadline_date

(***************************************************************************)
(* C9: for every (timeframe, mode) that is not one of the six recognized    *)
(* combinations, calculate_deadline returns today + 7 days.                 *)
(***************************************************************************)
C9_FallbackIsSevenDays ==
    (Recalculated /\ ~Recognized(op.timeframe, op.mode)) => Deadline = today + 7

\* compute('Weekly', 'bogus', today)
C9_Witness ==
    /\ Recalculated
    /\ op.timeframe = "Weekly"
    /\ op.mode = "bogus"
    /\ Deadline = today + 7

(***************************************************************************)
(* C10: calculate_deadline('Weekly', 'calendar') returns the first Sunday   *)
(* on or after today: today itself when today is a Sunday.                  *)
(***************************************************************************)
C10_WeeklyCalendarIsSunday ==
    (Recalculated /\ op.timeframe = "Weekly" /\ op.mode = "calendar") =>
        /\ Weekday(Deadline) = 6
        /\ today <= Deadline /\ Deadline <= today + 6
        /\ Weekday(today) = 6 => Deadline = today

\* on a Sunday the offset is zero
C10_Witness ==
    /\ Recalculated
    /\ op.timeframe = "Weekly" /\ op.mode = "calendar"
    /\ Weekday(today) = 6
    /\ Deadline = today

(***************************************************************************)
(* C8: two overlapping calls for the same user on the same day, both        *)
(* reading the streak fields before either commits, both find the target    *)
(* met and last_streak_date other than today, and both increment; the       *)
(* persisted current_streak ends 2 higher than before.                      *)
(***************************************************************************)
\* both requests read the same row, both ran the increment of line 136 on
\* their own object, and both have committed
BothCredited ==
    /\ \A r \in ReqIds :
          /\ req[r].pc = "done"
          /\ req[r].day = today
          /\ req[r].orig.last_streak_date # today
          /\ req[r].u.last_streak_date = today
          /\ req[r].u.current_streak = req[r].orig.current_streak + 1
    /\ \A r, q \in ReqIds : req[r].orig = req[q].orig

StreakRead == req[1].orig.current_streak

C8_DoubleCount ==
    BothCredited => user.current_streak = StreakRead + 2

\* C8 as the code has it: each request writes the value it computed from the
\* row it read, so the second write repeats the first and the day counts once
C8_LostUpdateCountsOnce ==
    BothCredited =>
        /\ user.current_streak = StreakRead + 1
        /\ user.last_streak_date = today

\* both calls overlapped and both incremented
C8_Witness ==
    /\ BothCredited
    /\ user.current_streak = StreakRead + 1

(***************************************************************************)
(* C11: get_next_birthday returns the earliest date >= today that carries   *)
(* the birth month and day, in the current or the following year, a         *)
(* Feb 29 birthday being kept on Feb 28 in a common year and on Feb 29 in   *)
(* a leap year.                                                             *)
(***************************************************************************)
\* date n is the birthday (m, d) of its year
CarriesBirthday(n, m, d) ==
    \/ MonthOf(n) = m /\ DayOf(n) = d
    \/ m = 2 /\ d = 29 /\ ~IsLeap(YearOf(n)) /\ MonthOf(n) = 2 /\ DayOf(n) = 28

RegisteredWithDob == op.name = "register" /\ op.dob # NoDob

C11_NextBirthday ==
    RegisteredWithDob =>
        \E b \in custom_rest_days :
            /\ custom_rest_days = {b}
            /\ b >= today
            /\ YearOf(b) \in {YearOf(today), YearOf(today) + 1}
            /\ CarriesBirthday(b, op.dob[1], op.dob[2])
            /\ \A n \in today..(b - 1) : ~CarriesBirthday(n, op.dob[1], op.dob[2])

\* nextOccurrence((2,29), 2025-03-01) = 2026-02-28
C11_Witness ==
    /\ RegisteredWithDob
    /\ op.dob = <<2, 29>>
    /\ today = MkDate(2025, 3, 1)
    /\ custom_rest_days = {MkDate(2026, 2, 28)}

(***************************************************************************)
(* C12: a call that consumes a freeze while todays_count < daily_target     *)
(* leaves current_streak unchanged and last_streak_date at today - 1, and   *)
(* a later call on that day, once the target is met, increments the streak. *)
(***************************************************************************)
C12_FreezeIsNotProgress ==
    /\ (EvalRan /\ FreezesUsed = 1 /\ ~TargetMet) =>
          /\ user.current_streak = pre.user.current_streak
          /\ user.last_streak_date = today - 1
    /\ (EvalRan /\ HadHistory /\ Gap = 1 /\ TargetMet) =>
          /\ user.current_streak = pre.user.current_streak + 1
          /\ user.last_streak_date = today
          /\ FreezesUsed = 0

\* the first freeze can only be spent two days after the first credit: here it
\* was spent today by an earlier call, and this call credits the day
C12_Witness ==
    /\ EvalRan /\ HadHistory
    /\ today = StartDay + 2
    /\ pre.user.streak_freezes = DefaultFreezes - 1
    /\ pre.user.last_streak_date = today - 1
    /\ pre.user.current_streak = 1
    /\ TargetMet
    /\ user.current_streak = 2
    /\ user.last_streak_date = today

(***************************************************************************)
(* C14: from the registration defaults, after any adjust_target and         *)
(* update_streak_status calls, daily_target >= 1, current_streak >= 0 and   *)
(* streak_freezes >= 0.                                                     *)
(***************************************************************************)
C14_StreakDomain ==
    /\ user.daily_target >= 1
    /\ user.current_streak >= 0
    /\ user.streak_freezes >= 0

\* the target is at its floor, the freezes are spent and a further miss was charged
C14_Witness ==
    /\ user.daily_target = 1
    /\ PenaltyDue
    /\ pre.user.streak_freezes = 0
    /\ user.streak_freezes = 0
    /\ user.current_streak = 0

(***************************************************************************)
(* C15: last_streak_date is never later than today and never moves to an    *)
(* earlier date; a call leaves it unchanged, sets it to today - 1 (only     *)
(* when it was earlier than today - 1) or sets it to today.                 *)
(***************************************************************************)
C15_DateMovesForward ==
    /\ user.last_streak_date <= today
    /\ user.last_streak_date >= pre.user.last_streak_date
    /\ EvalRan =>
          \/ user.last_streak_date = pre.user.last_streak_date
          \/ /\ user.last_streak_date = today - 1
             /\ HadHistory
             /\ pre.user.last_streak_date < today - 1
          \/ user.last_streak_date = today

\* a freeze moved the date up to yesterday
C15_Witness ==
    /\ EvalRan /\ HadHistory
    /\ pre.user.last_streak_date < today - 1
    /\ user.last_streak_date = today - 1

(***************************************************************************)
(* C13: a goal's deadline_date changes only when edit_step is submitted     *)
(* with a timeframe or deadline mode other than the stored one; it is set   *)
(* at creation, and an edit_step that keeps both, like every other          *)
(* operation, leaves it unchanged.                                          *)
(***************************************************************************)
TimingSubmitted(i) ==
    /\ op'.name = "edit_step"
    /\ op'.step = i
    /\ (op'.timeframe # steps[i].timeframe \/ op'.mode # steps[i].deadline_mode)

C13_DeadlineFrame ==
    [][ \A i \in StepIds :
          /\ (steps[i].exists /\ steps'[i].exists
                /\ steps'[i].deadline_date # steps[i].deadline_date)
                => TimingSubmitted(i)
          /\ (~steps[i].exists /\ steps'[i].exists)
                => (op'.name = "create_step" /\ op'.step = i) ]_vars

\* days after its deadline was set the goal is edited with the timing it
\* has, and keeps a deadline that a recalculation would have moved
C13_Witness ==
    /\ op.name = "edit_step"
    /\ op.timeframe = pre.step.timeframe
    /\ op.mode = pre.step.deadline_mode
    /\ steps[op.step].deadline_date = pre.step.deadline_date
    /\ steps[op.step].deadline_date # calculate_deadline(op.timeframe, op.mode, today)

====
